---------------------------- MODULE Spec2Model ----------------------------
(***************************************************************************)
(* The page analyzer of src/src/pages/WebTools.tsx as a state machine.     *)
(*                                                                         *)
(* State: the four useState cells of the WebTools component (url, report,  *)
(* errors, isLoading), the invocations of analyzeWebsite that are          *)
(* suspended at an await (calls), a log of the invocations that returned   *)
(* and of the toast() and fetch() calls made since analyzeWebsite was last *)
(* entered, and the inputs (closure url, html, loadTime) of the analysis   *)
(* whose results are stored.                                               *)
(*                                                                         *)
(* Text is modelled at two grains.  A URL is a sequence of one-character   *)
(* strings, so that new URL(url) and url.startsWith('https://') are        *)
(* computed character by character.  The retrieved HTML is a sequence of   *)
(* lexical fragments (one string per fragment); html.includes(m) is        *)
(* "some fragment is m" and html.match(/<img/g) collects the fragments     *)
(* that are "<img".                                                        *)
(***************************************************************************)
EXTENDS Integers, Sequences, FiniteSets, TLC

VARIABLES
    url,          \* useState("")   line 28: the text of the input box
    report,       \* useState([])   line 29
    errors,       \* useState([])   line 30
    isLoading,    \* useState(false) line 31
    calls,        \* invocations of analyzeWebsite suspended at an await
    ended,        \* invocations that returned since analyzeWebsite was last entered
    toasts,       \* toast() calls since analyzeWebsite was last entered
    fetches,      \* fetch() calls since analyzeWebsite was last entered
    anUrl,        \* closure's url   of the run that last reached line 185
    anHtml,       \* local html      of the run that last reached line 185
    anLoadTime    \* local loadTime  of the run that last reached line 185

vars == <<url, report, errors, isLoading, calls, ended, toasts, fetches,
          anUrl, anHtml, anLoadTime>>

----------------------------------------------------------------------------
(* Bounds of the model. *)

\* URL strings are concatenations of at most MaxUrlParts pieces of UrlPieces.
MaxUrlParts == 5

\* The retrieved HTML holds 0 or MaxImgs-3 .. MaxImgs occurrences of "<img".
MaxImgs == 17

\* Math.random() is sampled at LoadSteps evenly spaced points of [0, 1).
LoadSteps == 3

----------------------------------------------------------------------------
(* Sequences. *)

RECURSIVE Flatten(_)
Flatten(ss) == IF ss = <<>> THEN <<>> ELSE Head(ss) \o Flatten(Tail(ss))

RECURSIVE Repeat(_, _)
Repeat(x, n) == IF n = 0 THEN <<>> ELSE <<x>> \o Repeat(x, n - 1)

SeqsUpTo(S, n) == UNION {[1..k -> S] : k \in 0..n}

\* String.prototype.startsWith on character sequences.
StartsWith(s, p) == Len(s) >= Len(p) /\ SubSeq(s, 1, Len(p)) = p

\* Index of the first element of s at or after i that is in S; Len(s)+1 if none.
RECURSIVE FirstIn(_, _, _)
FirstIn(s, i, S) ==
    IF i > Len(s) THEN Len(s) + 1
    ELSE IF s[i] \in S THEN i
    ELSE FirstIn(s, i + 1, S)

\* Index of the first element of s at or after i that is not in S.
RECURSIVE FirstNotIn(_, _, _)
FirstNotIn(s, i, S) ==
    IF i > Len(s) THEN Len(s) + 1
    ELSE IF s[i] \notin S THEN i
    ELSE FirstNotIn(s, i + 1, S)

\* Index of the last element of s that is not in S; 0 if none.
RECURSIVE LastNotIn(_, _, _)
LastNotIn(s, i, S) ==
    IF i < 1 THEN 0
    ELSE IF s[i] \notin S THEN i
    ELSE LastNotIn(s, i - 1, S)

----------------------------------------------------------------------------
(* new URL(url), line 36: the WHATWG basic URL parser without a base URL,  *)
(* over the characters the model types.                                    *)

SchemeChars == {"h", "t", "p", "s", "x"}       \* ASCII alphanumerics
StripChars == {" "}                            \* C0 control or space
ForbiddenHostChars == {" "}                    \* forbidden host code points
HTTP == <<"h", "t", "t", "p">>
HTTPS == <<"h", "t", "t", "p", "s">>
SpecialSchemes == {HTTP, HTTPS}

ParseFailure == [ok |-> FALSE, scheme |-> <<>>, hasHost |-> FALSE, host |-> <<>>]

\* Leading and trailing C0 control or space are removed first.
TrimUrl(s) ==
    LET a == FirstNotIn(s, 1, StripChars)
        b == LastNotIn(s, Len(s), StripChars)
    IN  IF a > b THEN <<>> ELSE SubSeq(s, a, b)

\* Authority state, host state and port state on the text auth.
ParseAuthority(scheme, auth, special) ==
    LET c == FirstIn(auth, 1, {":"})
        host == SubSeq(auth, 1, c - 1)
        port == SubSeq(auth, c + 1, Len(auth))
    IN  IF c <= Len(auth) /\ host = <<>> THEN ParseFailure       \* host-missing
        ELSE IF special /\ host = <<>> THEN ParseFailure         \* host-missing
        ELSE IF \E i \in DOMAIN host : host[i] \in ForbiddenHostChars
             THEN ParseFailure
        ELSE IF port # <<>> THEN ParseFailure    \* the model types no digit
        ELSE [ok |-> TRUE, scheme |-> scheme, hasHost |-> TRUE, host |-> host]

ParseURL(input) ==
    LET s == TrimUrl(input)
        k == FirstNotIn(s, 1, SchemeChars)       \* scheme start / scheme state
    IN  IF k = 1 \/ k > Len(s) \/ s[k] # ":" THEN ParseFailure \* no scheme, no base
        ELSE
          LET scheme == SubSeq(s, 1, k - 1)
              rest == SubSeq(s, k + 1, Len(s))
          IN  IF scheme \in SpecialSchemes
              THEN \* special authority (ignore) slashes state
                   LET a == FirstNotIn(rest, 1, {"/"})
                       e == FirstIn(rest, a, {"/"})
                   IN  ParseAuthority(scheme, SubSeq(rest, a, e - 1), TRUE)
              ELSE IF StartsWith(rest, <<"/", "/">>)
              THEN LET e == FirstIn(rest, 3, {"/"})
                   IN  ParseAuthority(scheme, SubSeq(rest, 3, e - 1), FALSE)
              ELSE \* path state or opaque path state: no host
                   [ok |-> TRUE, scheme |-> scheme, hasHost |-> FALSE, host |-> <<>>]

\* lines 34-41
validateUrl(u) == ParseURL(u).ok

----------------------------------------------------------------------------
(* The retrieved HTML and the signals derived from it, lines 73-86. *)

IMG == "<img"
VIEWPORT == "name=\"viewport\""
ICON == "rel=\"icon\""
SHORTCUT_ICON == "rel=\"shortcut icon\""
DESCRIPTION == "name=\"description\""
H1 == "<h1"
CANONICAL == "rel=\"canonical\""
ROBOTS == "robots.txt"
SITEMAP == "sitemap.xml"
FILLER == "<html>"

\* String.prototype.includes, on fragments.
Includes(html, m) == \E i \in DOMAIN html : html[i] = m

\* html.match(/<img/g) || []   line 78
MatchImg(html) == SelectSeq(html, LAMBDA f : f = IMG)

\* new Blob([html]).size   line 77: the fragments are ASCII, one byte a character
RECURSIVE BlobSize(_)
BlobSize(html) == IF html = <<>> THEN 0 ELSE Len(Head(html)) + BlobSize(Tail(html))

imagesCount(html) == Len(MatchImg(html))                                  \* 78
\* Variant of hasViewport that looks for the wrong marker.
hasViewport_WrongMarker(html) == Includes(html, DESCRIPTION)
hasViewport(html) == Includes(html, VIEWPORT)                             \* 79
hasFavicon(html) == Includes(html, ICON) \/ Includes(html, SHORTCUT_ICON) \* 80
hasMetaDescription(html) == Includes(html, DESCRIPTION)                   \* 81
hasH1(html) == Includes(html, H1)                                         \* 82
hasCanonical(html) == Includes(html, CANONICAL)                           \* 83
\* Variant of hasHttps that tests only the letters "http".
hasHttps_SchemePrefix(u) == StartsWith(u, HTTP)
hasHttps(u) == StartsWith(u, HTTPS \o <<":", "/", "/">>)                  \* 84
hasRobotsTxt(html) == Includes(html, ROBOTS)                              \* 85
hasSitemap(html) == Includes(html, SITEMAP)                               \* 86

----------------------------------------------------------------------------
(* Numbers.  loadTime is held in thousandths of a second, the page size in *)
(* bytes; toFixed(2) rounds to hundredths, a tie going up.                 *)

\* Math.random() * 3 + 0.5   line 76: a value of [0.5, 3.5), in thousandths
LoadTimes ==
    {500 + (i * 3000) \div LoadSteps : i \in 0..(LoadSteps - 1)}
        \cup {2000, 2001, 2004, 2005, 3499}

\* loadTime > 2   line 113, in thousandths
LoadTimeLimit == 2000
\* imagesCount > 15   line 161
ImgLimit == 15

\* Number.prototype.toFixed(2) of h hundredths
ToFixed2(h) ==
    ToString(h \div 100) \o "." \o (IF h % 100 < 10 THEN "0" ELSE "")
        \o ToString(h % 100)

\* `${loadTime.toFixed(2)}s`   line 89
FormatLoadTime(lt) == ToFixed2((lt + 5) \div 10) \o "s"

\* `${htmlSize.toFixed(2)} KB` with htmlSize = bytes / 1024   lines 77, 90
FormatSize(bytes) == ToFixed2((bytes * 200 + 1024) \div 2048) \o " KB"

PresentOrMissing(b) == IF b THEN "Present" ELSE "Missing"
YesOrNo(b) == IF b THEN "Yes" ELSE "No"

----------------------------------------------------------------------------
(* The report and the issue list, lines 88-183. *)

Row(m, v) == [metric |-> m, value |-> v]
Issue(t, d, s) == [type |-> t, description |-> d, severity |-> s]

\* Variant of NewReport with the Favicon and H1 rows in the order of the
\* issue rules.
NewReport_RuleOrder(u, html, loadTime) ==
    << Row("Page Load Time", FormatLoadTime(loadTime)),
       Row("Page Size", FormatSize(BlobSize(html))),
       Row("Images Count", ToString(imagesCount(html))),
       Row("Mobile Viewport", PresentOrMissing(hasViewport(html))),
       Row("Meta Description", PresentOrMissing(hasMetaDescription(html))),
       Row("H1 Tag", PresentOrMissing(hasH1(html))),
       Row("Favicon", PresentOrMissing(hasFavicon(html))),
       Row("Canonical Tag", PresentOrMissing(hasCanonical(html))),
       Row("HTTPS", YesOrNo(hasHttps(u))),
       Row("Robots.txt", PresentOrMissing(hasRobotsTxt(html))),
       Row("Sitemap", PresentOrMissing(hasSitemap(html))) >>

\* lines 88-100
NewReport(u, html, loadTime) ==
    << Row("Page Load Time", FormatLoadTime(loadTime)),
       Row("Page Size", FormatSize(BlobSize(html))),
       Row("Images Count", ToString(imagesCount(html))),
       Row("Mobile Viewport", PresentOrMissing(hasViewport(html))),
       Row("Meta Description", PresentOrMissing(hasMetaDescription(html))),
       Row("Favicon", PresentOrMissing(hasFavicon(html))),
       Row("H1 Tag", PresentOrMissing(hasH1(html))),
       Row("Canonical Tag", PresentOrMissing(hasCanonical(html))),
       Row("HTTPS", YesOrNo(hasHttps(u))),
       Row("Robots.txt", PresentOrMissing(hasRobotsTxt(html))),
       Row("Sitemap", PresentOrMissing(hasSitemap(html))) >>

NotHttpsIssue == Issue("Security", "Website is not using HTTPS", "high")
SlowLoadIssue == Issue("Performance", "Page load time is above 2 seconds", "high")
NoViewportIssue ==
    Issue("Mobile", "Missing viewport meta tag for mobile optimization", "high")
NoDescriptionIssue == Issue("SEO", "Missing meta description", "medium")
NoH1Issue == Issue("SEO", "Missing H1 heading", "medium")
NoFaviconIssue == Issue("UI", "Missing favicon", "low")
NoCanonicalIssue == Issue("SEO", "Missing canonical tag", "medium")
ManyImagesIssue ==
    Issue("Performance", "High number of images may affect load time", "medium")
NoRobotsIssue == Issue("SEO", "Missing robots.txt file", "medium")
NoSitemapIssue == Issue("SEO", "Missing sitemap.xml", "medium")

\* if (c) { newErrors.push(e) }
PushIf(c, es, e) == IF c THEN Append(es, e) ELSE es

\* Variant of SlowLoad that fires at the limit itself.
SlowLoad_AtLeast(loadTime) == loadTime >= LoadTimeLimit
\* line 113
SlowLoad(loadTime) == loadTime > LoadTimeLimit
\* Variant of TooManyImages that fires at the limit itself.
TooManyImages_AtLeast(n) == n >= ImgLimit
\* line 161
TooManyImages(n) == n > ImgLimit

\* lines 102-183
NewErrors(u, html, loadTime) ==
    LET e0 == <<>>
        e1 == PushIf(~hasHttps(u), e0, NotHttpsIssue)
        e2 == PushIf(SlowLoad(loadTime), e1, SlowLoadIssue)
        e3 == PushIf(~hasViewport(html), e2, NoViewportIssue)
        e4 == PushIf(~hasMetaDescription(html), e3, NoDescriptionIssue)
        e5 == PushIf(~hasH1(html), e4, NoH1Issue)
        e6 == PushIf(~hasFavicon(html), e5, NoFaviconIssue)
        e7 == PushIf(~hasCanonical(html), e6, NoCanonicalIssue)
        e8 == PushIf(TooManyImages(imagesCount(html)), e7, ManyImagesIssue)
        e9 == PushIf(~hasRobotsTxt(html), e8, NoRobotsIssue)
    IN  PushIf(~hasSitemap(html), e9, NoSitemapIssue)

----------------------------------------------------------------------------
(* Notifications. *)

Toast(t, d, v) == [title |-> t, description |-> d, variant |-> v]

ToastEnterUrl == Toast("Error", "Please enter a URL", "destructive")       \* 45-49
ToastInvalidUrl == Toast("Error", "Please enter a valid URL", "destructive") \* 54-58
ToastSuccess == Toast("Success", "Website analysis completed", "default")  \* 187-190
ToastFailed ==                                                             \* 192-196
    Toast("Error",
          "Failed to analyze website. Please check the URL and try again.",
          "destructive")

----------------------------------------------------------------------------
(* What response.json() resolves with, line 67.  kind is the shape of the  *)
(* parsed JSON: null itself, an object without "contents", or an object    *)
(* whose "contents" is null, a number (num) or a string (str).             *)

Data(k, n, s) == [kind |-> k, num |-> n, str |-> s]
NoData == Data("none", 0, <<>>)

\* Variant of ContentsFalsy that tests only for null and undefined.
ContentsFalsy_NullishOnly(d) == d.kind \in {"absent", "nullContents"}

\* !data.contents   line 69, for a data that is an object
ContentsFalsy(d) ==
    \/ d.kind \in {"absent", "nullContents"}
    \/ d.kind = "number" /\ d.num = 0
    \/ d.kind = "string" /\ d.str = <<>>

----------------------------------------------------------------------------
(* The inputs the environment supplies. *)

UrlPieces ==
    { HTTP, HTTPS, <<":">>, <<"/">>, <<"x">>, <<" ">> }

\* Every text of at most MaxUrlParts pieces.
UrlInputs == {Flatten(ps) : ps \in SeqsUpTo(UrlPieces, MaxUrlParts)}

Str(pieces) == Flatten(pieces)

\* The texts the input box takes in the specification Spec.
UrlSamples ==
    { <<>>,
      Str(<< <<"x">> >>),                                      \* x
      Str(<< HTTP, <<":">>, <<"/">>, <<"/">> >>),              \* http://
      Str(<< HTTP, <<":">>, <<"/">>, <<"/">>, <<"x">> >>),     \* http://x
      Str(<< HTTPS, <<":">>, <<"/">>, <<"/">>, <<"x">> >>),    \* https://x
      Str(<< <<"x">>, <<":">>, <<"x">> >>) }                   \* x:x

Markers ==
    { VIEWPORT, ICON, SHORTCUT_ICON, DESCRIPTION, H1, CANONICAL, ROBOTS, SITEMAP }
MarkerOrder ==
    << VIEWPORT, DESCRIPTION, ICON, SHORTCUT_ICON, H1, CANONICAL, ROBOTS, SITEMAP >>

\* A page with the markers of M and n images.
MkHtml(M, n) ==
    <<FILLER>> \o SelectSeq(MarkerOrder, LAMBDA m : m \in M) \o Repeat(IMG, n)

ImgCounts == {0} \cup {n \in (MaxImgs - 3)..MaxImgs : n >= 0}

HtmlInputs == {MkHtml(M, n) : M \in SUBSET Markers, n \in ImgCounts}

HtmlSamples ==
    { MkHtml({}, 0),
      MkHtml(Markers \ {ICON}, MaxImgs - 1),
      MkHtml({VIEWPORT, ICON, ROBOTS}, MaxImgs - 2) }

FailingData ==
    { Data("null", 0, <<>>), Data("absent", 0, <<>>), Data("nullContents", 0, <<>>),
      Data("number", 0, <<>>), Data("number", 5, <<>>), Data("string", 0, <<>>) }

DataSamples == FailingData \cup {Data("string", 0, h) : h \in HtmlSamples}
DataInputs == FailingData \cup {Data("string", 0, h) : h \in HtmlInputs}

----------------------------------------------------------------------------
(* The operations. *)

Call(p, u, d) == [pc |-> p, url |-> u, data |-> d]

Remove(s, i) == SubSeq(s, 1, i - 1) \o SubSeq(s, i + 1, Len(s))

Init ==
    /\ url = <<>>
    /\ report = <<>>
    /\ errors = <<>>
    /\ isLoading = FALSE
    /\ calls = <<>>
    /\ ended = <<>>
    /\ toasts = <<>>
    /\ fetches = 0
    /\ anUrl = <<>>
    /\ anHtml = <<>>
    /\ anLoadTime = 0

\* onChange={(e) => setUrl(e.target.value)}   line 218
SetUrl ==
    /\ \E u \in UrlSamples : u # url /\ url' = u
    /\ UNCHANGED <<report, errors, isLoading, calls, ended, toasts, fetches,
                   anUrl, anHtml, anLoadTime>>

\* Variant of ButtonEnabled without the disabled attribute.
ButtonEnabled_Always == TRUE

\* <Button onClick={analyzeWebsite} disabled={isLoading}>   line 221
ButtonEnabled == ~isLoading

\* A click on the button: analyzeWebsite up to its first await, lines 43-66.
Click ==
    /\ ButtonEnabled
    /\ ended' = <<>>
    /\ \/ /\ url = <<>>                                        \* 44-51
          /\ toasts' = <<ToastEnterUrl>>
          /\ fetches' = 0
          /\ UNCHANGED <<isLoading, calls>>
       \/ /\ url # <<>>                                        \* 53-60
          /\ ~validateUrl(url)
          /\ toasts' = <<ToastInvalidUrl>>
          /\ fetches' = 0
          /\ UNCHANGED <<isLoading, calls>>
       \/ /\ url # <<>>                                        \* 62-66
          /\ validateUrl(url)
          /\ isLoading' = TRUE
          /\ calls' = Append(calls, Call("fetch", url, NoData))
          /\ toasts' = <<>>
          /\ fetches' = 1
    /\ UNCHANGED <<url, report, errors, anUrl, anHtml, anLoadTime>>

\* Variant of Catch that also clears the report.
Catch_ClearsReport(i) ==
    /\ toasts' = Append(toasts, ToastFailed)
    /\ isLoading' = FALSE
    /\ calls' = Remove(calls, i)
    /\ ended' = Append(ended, calls[i])
    /\ report' = <<>>
    /\ UNCHANGED <<url, errors, fetches, anUrl, anHtml, anLoadTime>>

\* Variant of Catch without the finally block.
Catch_KeepsLoading(i) ==
    /\ toasts' = Append(toasts, ToastFailed)
    /\ calls' = Remove(calls, i)
    /\ ended' = Append(ended, calls[i])
    /\ UNCHANGED <<url, report, errors, isLoading, fetches,
                   anUrl, anHtml, anLoadTime>>

\* catch and finally, lines 191-200: call i returns after a throw.
Catch(i) ==
    /\ toasts' = Append(toasts, ToastFailed)
    /\ isLoading' = FALSE
    /\ calls' = Remove(calls, i)
    /\ ended' = Append(ended, calls[i])
    /\ UNCHANGED <<url, report, errors, fetches, anUrl, anHtml, anLoadTime>>

\* lines 73-190 and finally: call i analyses its html with loadTime lt.
Succeed(i, lt) ==
    LET u == calls[i].url
        html == calls[i].data.str
    IN  /\ report' = NewReport(u, html, lt)
        /\ errors' = NewErrors(u, html, lt)
        /\ toasts' = Append(toasts, ToastSuccess)
        /\ isLoading' = FALSE
        /\ calls' = Remove(calls, i)
        /\ ended' = Append(ended, calls[i])
        /\ anUrl' = u
        /\ anHtml' = html
        /\ anLoadTime' = lt
        /\ UNCHANGED <<url, fetches>>

\* await fetch(proxyUrl) resolves with a response, line 66.
FetchResolve ==
    \E i \in DOMAIN calls :
        /\ calls[i].pc = "fetch"
        /\ calls' = [calls EXCEPT ![i].pc = "json"]
        /\ UNCHANGED <<url, report, errors, isLoading, ended, toasts, fetches,
                       anUrl, anHtml, anLoadTime>>

\* await fetch(proxyUrl) rejects, line 66.
FetchReject ==
    \E i \in DOMAIN calls :
        /\ calls[i].pc = "fetch"
        /\ Catch(i)

\* response.json() resolves with the parsed body, line 67.
JsonResolve ==
    \E i \in DOMAIN calls :
        /\ calls[i].pc = "json"
        /\ \E d \in DataSamples :
              calls' = [calls EXCEPT ![i] = Call("parsed", @.url, d)]
        /\ UNCHANGED <<url, report, errors, isLoading, ended, toasts, fetches,
                       anUrl, anHtml, anLoadTime>>

\* response.json() rejects: the body is no JSON, line 67.
JsonReject ==
    \E i \in DOMAIN calls :
        /\ calls[i].pc = "json"
        /\ Catch(i)

\* The continuation after the second await, lines 67-200.
Continue ==
    \E i \in DOMAIN calls :
        /\ calls[i].pc = "parsed"
        /\ LET d == calls[i].data
           IN  \/ /\ d.kind = "null"         \* data.contents of null throws
                  /\ Catch(i)
               \/ /\ d.kind # "null"         \* 69-71
                  /\ ContentsFalsy(d)
                  /\ Catch(i)
               \/ /\ d.kind # "null"         \* 78: html.match is not a function
                  /\ ~ContentsFalsy(d)
                  /\ d.kind # "string"
                  /\ Catch(i)
               \/ /\ d.kind = "string"
                  /\ ~ContentsFalsy(d)
                  /\ \E lt \in LoadTimes : Succeed(i, lt)

Settle == FetchResolve \/ FetchReject \/ JsonResolve \/ JsonReject \/ Continue

Next == SetUrl \/ Click \/ Settle

Spec == Init /\ [][Next]_vars

\* A pending fetch or json() promise settles, and a settled promise's
\* continuation runs.
LiveSpec == Spec /\ WF_vars(Settle)

----------------------------------------------------------------------------
(* validateUrl and the entry of analyzeWebsite over every text of          *)
(* UrlInputs: the page is loaded, a text is in the box, the button is      *)
(* clicked.                                                                *)

InitUrl ==
    /\ url \in UrlInputs
    /\ report = <<>>
    /\ errors = <<>>
    /\ isLoading = FALSE
    /\ calls = <<>>
    /\ ended = <<>>
    /\ toasts = <<>>
    /\ fetches = 0
    /\ anUrl = <<>>
    /\ anHtml = <<>>
    /\ anLoadTime = 0

NextUrl == Click

SpecUrl == InitUrl /\ [][NextUrl]_vars

----------------------------------------------------------------------------
(* The analysis over every page of HtmlInputs: the first analysis of a     *)
(* page load has received its data and its continuation is about to run.   *)

InitRules ==
    /\ url \in {u \in UrlSamples : validateUrl(u)}
    /\ report = <<>>
    /\ errors = <<>>
    /\ isLoading = TRUE
    /\ \E d \in DataInputs : calls = <<Call("parsed", url, d)>>
    /\ ended = <<>>
    /\ toasts = <<>>
    /\ fetches = 1
    /\ anUrl = <<>>
    /\ anHtml = <<>>
    /\ anLoadTime = 0

NextRules == Continue

SpecRules == InitRules /\ [][NextRules]_vars

----------------------------------------------------------------------------
(* Properties. *)

Range(s) == {s[i] : i \in DOMAIN s}
Count(s, e) == Cardinality({i \in DOMAIN s : s[i] = e})

\* The analysis whose results are stored has run in this invocation.
Analysed == ended # <<>> /\ toasts = <<ToastSuccess>>

\* A text that is empty, has no scheme, or has no host.
Malformed(u) ==
    LET r == ParseURL(u)
    IN  u = <<>> \/ ~r.ok \/ ~r.hasHost \/ r.host = <<>>

\* data.contents is missing, null or the empty string.
EmptyContent(d) ==
    \/ d.kind \in {"absent", "nullContents"}
    \/ d.kind = "string" /\ d.str = <<>>

\* C1: a click with a malformed text in the box (empty, no scheme or no
\* host) raises one of the two invalid-input notifications and nothing
\* else: fetch is not called, isLoading stays false, no call is suspended,
\* report and errors are unchanged.
C1_MalformedRejected ==
    [][ (ButtonEnabled /\ Malformed(url) /\ url' = url)
          => /\ toasts' \in {<<ToastEnterUrl>>, <<ToastInvalidUrl>>}
             /\ fetches' = 0
             /\ isLoading' = FALSE
             /\ calls' = calls
             /\ report' = report
             /\ errors' = errors ]_vars

\* C2: report and errors are both empty, or both are what one analysis
\* (of anUrl, anHtml, anLoadTime) produced; and a step that raises a
\* failure notification leaves both unchanged.
C2_PairIsWhole ==
    \/ report = <<>> /\ errors = <<>> /\ anHtml = <<>>
    \/ /\ anHtml # <<>>
       /\ report = NewReport(anUrl, anHtml, anLoadTime)
       /\ errors = NewErrors(anUrl, anHtml, anLoadTime)

C2_FailureRaised ==
    /\ toasts' # toasts
    /\ toasts' # <<>>
    /\ toasts'[Len(toasts')].variant = "destructive"

C2_NoPartialResult ==
    /\ []C2_PairIsWhole
    /\ [][C2_FailureRaised => (report' = report /\ errors' = errors)]_vars

\* C2 witness: an analysis failed after an earlier one had succeeded, and
\* the earlier result is still stored.
C2_Witness ==
    /\ report # <<>>
    /\ ended # <<>>
    /\ toasts = <<ToastFailed>>
    /\ ended[1].url # anUrl

\* C3: when the continuation runs on data with empty or absent contents,
\* the call returns with the failure notification as the only
\* notification, no success notification, one fetch in all, and report,
\* errors and the analysed inputs unchanged; and while that call is the
\* last one ended, no further fetch or call exists.
C3_EndedEmpty ==
    /\ ended # <<>>
    /\ ended[1].pc = "parsed"
    /\ EmptyContent(ended[1].data)

C3_EmptyContentFails ==
    /\ [](C3_EndedEmpty =>
             (toasts = <<ToastFailed>> /\ fetches = 1 /\ calls = <<>>))
    /\ [][ \A i \in DOMAIN calls :
             (calls[i].pc = "parsed" /\ EmptyContent(calls[i].data)
                /\ calls' # calls)
               => /\ toasts' = <<ToastFailed>>
                  /\ fetches' = 1
                  /\ calls' = <<>>
                  /\ ended' = <<calls[i]>>
                  /\ report' = report
                  /\ errors' = errors
                  /\ <<anUrl, anHtml, anLoadTime>>' = <<anUrl, anHtml, anLoadTime>>
       ]_vars

\* C3 witness: a call whose contents was the empty string has ended in the
\* failure notification.
C3_Witness ==
    /\ C3_EndedEmpty
    /\ ended[1].data.kind = "string"
    /\ toasts = <<ToastFailed>>

\* C4: at most one invocation is suspended at any time, at most one fetch
\* is made per click, and while an invocation is suspended the button is
\* disabled, so that no click can start another.
C4_AtMostOneInFlight ==
    /\ Len(calls) <= 1
    /\ fetches <= 1
    /\ calls # <<>> => (isLoading /\ ~ButtonEnabled /\ ~ENABLED Click)

\* C4 witness: an invocation is suspended at response.json() while the text
\* in the box has been changed.
C4_Witness ==
    /\ Len(calls) = 1
    /\ calls[1].pc = "json"
    /\ url # calls[1].url

\* C9: a suspended invocation eventually returns; the step in which it
\* returns leaves isLoading false and exactly one notification, which is
\* the success notification with report and errors replaced by the
\* analysis of the call's own url and html, or the failure notification
\* with report and errors unchanged.
C9_Returns ==
    \A i \in DOMAIN calls :
        (Len(calls') < Len(calls))
          => /\ calls' = <<>>
             /\ isLoading' = FALSE
             /\ ButtonEnabled'
             /\ Len(toasts') = 1
             /\ \/ /\ toasts' = <<ToastSuccess>>
                   /\ report' = NewReport(calls[i].url, calls[i].data.str, anLoadTime')
                   /\ errors' = NewErrors(calls[i].url, calls[i].data.str, anLoadTime')
                \/ /\ toasts' = <<ToastFailed>>
                   /\ report' = report
                   /\ errors' = errors

C9_AlwaysTerminates ==
    /\ (calls # <<>>) ~> (calls = <<>> /\ ~isLoading)
    /\ [][C9_Returns]_vars

\* C9 witness: an invocation whose response was no JSON has returned and
\* the button is enabled again.
C9_Witness ==
    /\ ended # <<>>
    /\ ended[1].pc = "json"
    /\ toasts = <<ToastFailed>>
    /\ ~isLoading
    /\ calls = <<>>

\* The value of the row of the stored report whose label is m.
RowValue(m) ==
    LET i == CHOOSE j \in DOMAIN report : report[j].metric = m
    IN  report[i].value

\* The number of fragments of html that are f.
Occurrences(html, f) == Cardinality({i \in DOMAIN html : html[i] = f})

\* C5: after an analysis requested with a text beginning with http://, the
\* issue list holds the Security/high issue "Website is not using HTTPS"
\* and the HTTPS row reads "No", whatever the html.
C5_HttpIsFlagged ==
    (Analysed /\ StartsWith(anUrl, HTTP \o <<":", "/", "/">>))
      => /\ NotHttpsIssue \in Range(errors)
         /\ NotHttpsIssue.type = "Security"
         /\ NotHttpsIssue.severity = "high"
         /\ Count(report, Row("HTTPS", "No")) = 1
         /\ Count(report, Row("HTTPS", "Yes")) = 0

\* C5 witness: an http:// page with every marker was analysed.
C5_Witness ==
    /\ Analysed
    /\ StartsWith(anUrl, HTTP \o <<":", "/", "/">>)
    /\ \A m \in Markers : Includes(anHtml, m)
    /\ NotHttpsIssue \in Range(errors)

MetricLabels ==
    << "Page Load Time", "Page Size", "Images Count", "Mobile Viewport",
       "Meta Description", "Favicon", "H1 Tag", "Canonical Tag", "HTTPS",
       "Robots.txt", "Sitemap" >>

\* C6: the stored report is empty or has the eleven labels in the fixed
\* order.
C6_ElevenMetrics ==
    \/ report = <<>>
    \/ /\ Len(report) = 11
       /\ [i \in DOMAIN report |-> report[i].metric] = MetricLabels

\* C6 witness: a report of eleven rows is stored.
C6_Witness == Analysed /\ Len(report) = 11

\* C7: with n the number of "<img" in the analysed html, the issue "High
\* number of images may affect load time" (Performance/medium) is in the
\* list once if n > 15 and not at all otherwise, and the Images Count row
\* reads n.
C7_ImagesRule ==
    Analysed =>
      LET n == Occurrences(anHtml, IMG)
      IN  /\ Count(errors, ManyImagesIssue) = (IF n > ImgLimit THEN 1 ELSE 0)
          /\ ManyImagesIssue.type = "Performance"
          /\ ManyImagesIssue.severity = "medium"
          /\ RowValue("Images Count") = ToString(n)

\* C7 witness: a page with exactly 16 images was analysed and the issue is
\* in the list once.
C7_Witness ==
    /\ Analysed
    /\ Occurrences(anHtml, IMG) = ImgLimit + 1
    /\ Count(errors, ManyImagesIssue) = 1

\* The markers the claim names, with their rows and issues.
MarkerSignals ==
    { [marker |-> VIEWPORT, label |-> "Mobile Viewport", issue |-> NoViewportIssue],
      [marker |-> DESCRIPTION, label |-> "Meta Description", issue |-> NoDescriptionIssue],
      [marker |-> H1, label |-> "H1 Tag", issue |-> NoH1Issue],
      [marker |-> CANONICAL, label |-> "Canonical Tag", issue |-> NoCanonicalIssue],
      [marker |-> ICON, label |-> "Favicon", issue |-> NoFaviconIssue] }

\* Every boolean row with its issue.
BooleanRows ==
    {[label |-> g.label, issue |-> g.issue] : g \in MarkerSignals}
      \cup { [label |-> "HTTPS", issue |-> NotHttpsIssue],
             [label |-> "Robots.txt", issue |-> NoRobotsIssue],
             [label |-> "Sitemap", issue |-> NoSitemapIssue] }

\* C8: after an analysis, a marker that is in the html makes its row read
\* "Present" and keeps its issue out of the list, whatever the load time
\* and the image count; and a boolean row reads "Missing" or "No" exactly
\* when its issue is in the list.
C8_MarkersAndIssues ==
    Analysed =>
      /\ \A g \in MarkerSignals :
            Includes(anHtml, g.marker)
              => (RowValue(g.label) = "Present" /\ g.issue \notin Range(errors))
      /\ \A b \in BooleanRows :
            /\ RowValue(b.label) \in {"Present", "Missing", "Yes", "No"}
            /\ RowValue(b.label) \in {"Missing", "No"} <=> b.issue \in Range(errors)

\* C8 witness: a page with the five markers was analysed while the load-time
\* and image-count issues both fired.
C8_Witness ==
    /\ Analysed
    /\ \A g \in MarkerSignals : Includes(anHtml, g.marker)
    /\ \A g \in MarkerSignals : g.issue \notin Range(errors)
    /\ SlowLoadIssue \in Range(errors)
    /\ ManyImagesIssue \in Range(errors)

\* The ten-rule table, conditions on the requested url, the html and the
\* load time in thousandths of a second.
RuleTable(u, html, lt) ==
    << [holds |-> ~StartsWith(u, HTTPS \o <<":", "/", "/">>),
        issue |-> Issue("Security", "Website is not using HTTPS", "high")],
       [holds |-> lt > LoadTimeLimit,
        issue |-> Issue("Performance", "Page load time is above 2 seconds", "high")],
       [holds |-> ~Includes(html, VIEWPORT),
        issue |-> Issue("Mobile",
                        "Missing viewport meta tag for mobile optimization", "high")],
       [holds |-> ~Includes(html, DESCRIPTION),
        issue |-> Issue("SEO", "Missing meta description", "medium")],
       [holds |-> ~Includes(html, H1),
        issue |-> Issue("SEO", "Missing H1 heading", "medium")],
       [holds |-> ~(Includes(html, ICON) \/ Includes(html, SHORTCUT_ICON)),
        issue |-> Issue("UI", "Missing favicon", "low")],
       [holds |-> ~Includes(html, CANONICAL),
        issue |-> Issue("SEO", "Missing canonical tag", "medium")],
       [holds |-> Occurrences(html, IMG) > ImgLimit,
        issue |-> Issue("Performance",
                        "High number of images may affect load time", "medium")],
       [holds |-> ~Includes(html, ROBOTS),
        issue |-> Issue("SEO", "Missing robots.txt file", "medium")],
       [holds |-> ~Includes(html, SITEMAP),
        issue |-> Issue("SEO", "Missing sitemap.xml", "medium")] >>

\* The issues of the rules of table t that hold, in table order.
Firing(t) ==
    LET f == SelectSeq(t, LAMBDA r : r.holds)
    IN  [i \in DOMAIN f |-> f[i].issue]

\* C10: after an analysis the issue list is the table's firing rules in
\* table order, one entry a rule, so between 0 and 10 entries.
C10_IssuesFollowTable ==
    Analysed =>
      /\ errors = Firing(RuleTable(anUrl, anHtml, anLoadTime))
      /\ Len(errors) \in 0..10
      /\ \A e \in Range(errors) : Count(errors, e) = 1

\* C10 witness: an analysis in which every one of the ten rules fired.
C10_Witness == Analysed /\ Len(errors) = 10

\* An analysis in which no rule fired.
C10_NoIssue == Analysed /\ errors = <<>>

=============================================================================
